---- MODULE Spec2Model ----
(***************************************************************************)
(* Course tracker: the four tables of the schema and the eight server      *)
(* actions of src/src/actions/index.ts.  Every `await db...` statement of  *)
(* a handler is one atomic storage step; the steps of concurrent requests  *)
(* interleave freely.                                                      *)
(***************************************************************************)
EXTENDS Integers, Sequences, FiniteSets, TLC

VARIABLES Courses, CourseItems, CourseProgress, CourseItemProgress,
          seq, now, req

tables == <<Courses, CourseItems, CourseProgress, CourseItemProgress>>
vars == <<Courses, CourseItems, CourseProgress, CourseItemProgress, seq, now, req>>

(***************************************************************************)
(* Bounds                                                                  *)
(***************************************************************************)
MaxCourses == 2
MaxItems == 2
MaxProgress == 2
MaxItemProgress == 1
MaxTime == 1

\* concurrent requests
Procs == {"r1", "r2"}
Users == {"u1", "u2"}
\* context.locals.user is absent
NoUser == "anonymous"
Callers == Users \cup {NoUser}

(***************************************************************************)
(* Values.  An optional value is a sequence of length at most one: <<>> is *)
(* undefined (in an input) or NULL (in a column), <<v>> is the value v.    *)
(* A `const [row] = await db.select()...limit(1)` result has the same      *)
(* shape: <<>> when no row matched.                                        *)
(***************************************************************************)
None == <<>>
Some(v) == <<v>>

\* a ?? b
Coalesce(a, b) == IF a # None THEN a ELSE b
\* a ?? d, with d a plain default value
OrElse(a, d) == IF a # None THEN a[1] ELSE d

\* drizzle's update().set(values): a key whose value is undefined is left out
\* of the SET clause, so the column keeps its stored value
SetColumn(new, old) == IF new # None THEN new ELSE old

\* [row] = await db.select()...limit(1): any one of the matching rows
FirstOf(rows) == IF rows = {} THEN {None} ELSE {Some(r) : r \in rows}

\* the guard left out
requireUserAlways(u) == TRUE

requireUser(u) == u # NoUser

Idle == [pc |-> "idle", op |-> "none", user |-> NoUser, input |-> None,
         course |-> None, item |-> None, existing |-> None, base |-> None,
         result |-> None]

Call(op, u, in) == [Idle EXCEPT !.op = op, !.user = u, !.input = in]

\* the handler returns `value`, or throws ActionError(code)
Finished(r, code, value) ==
    [Idle EXCEPT !.pc = "done", !.op = r.op, !.user = r.user, !.input = r.input,
                 !.result = [code |-> code, value |-> value]]

\* request p is at `label`, and no finished handler's response is still
\* undelivered: a response goes out before the next storage step is scheduled
At(p, label) ==
    /\ req[p].pc = label
    /\ \A q \in Procs : req[q].pc # "done"

Init ==
    /\ Courses = {}
    /\ CourseItems = {}
    /\ CourseProgress = {}
    /\ CourseItemProgress = {}
    /\ seq = [Courses |-> 0, CourseItems |-> 0, CourseProgress |-> 0, CourseItemProgress |-> 0]
    /\ now = 0
    /\ req = [p \in Procs |-> Idle]

\* the wall clock read by `new Date()`
Tick ==
    /\ now < MaxTime
    /\ now' = now + 1
    /\ UNCHANGED <<tables, seq, req>>

\* the response has been delivered; the request slot is free again
Return(p) ==
    /\ req[p].pc = "done"
    /\ req' = [req EXCEPT ![p] = Idle]
    /\ UNCHANGED <<tables, seq, now>>

(***************************************************************************)
(* createCourse                                                            *)
(***************************************************************************)
CourseValues(u, in, t) ==
    [ownerId |-> u, title |-> in.title, description |-> in.description,
     provider |-> in.provider, platform |-> in.platform, url |-> in.url,
     level |-> OrElse(in.level, "beginner"), tags |-> in.tags,
     status |-> OrElse(in.status, "planned"), createdAt |-> t, updatedAt |-> t]

InsertCourse(v) ==
    [id |-> seq.Courses + 1, ownerId |-> v.ownerId, title |-> v.title,
     description |-> v.description, provider |-> v.provider,
     platform |-> v.platform, url |-> v.url, level |-> v.level, tags |-> v.tags,
     status |-> v.status, createdAt |-> v.createdAt, updatedAt |-> v.updatedAt]

createCourse(p, u, in) ==
    /\ At(p, "idle")
    /\ IF ~requireUser(u)
       THEN /\ req' = [req EXCEPT ![p] = Finished(Call("createCourse", u, in), "UNAUTHORIZED", None)]
            /\ UNCHANGED <<tables, seq, now>>
       ELSE /\ seq.Courses < MaxCourses
            /\ LET course == InsertCourse(CourseValues(u, in, now))
               IN /\ Courses' = Courses \cup {course}
                  /\ seq' = [seq EXCEPT !.Courses = @ + 1]
                  /\ req' = [req EXCEPT ![p] = Finished(Call("createCourse", u, in), "OK", Some(course))]
            /\ UNCHANGED <<CourseItems, CourseProgress, CourseItemProgress, now>>

\* the ownership lookup without its ownerId condition
OwnedCourseAnyOwner(id, u) == FirstOf({c \in Courses : c.id = id})

\* where(and(eq(Courses.id, id), eq(Courses.ownerId, user.id))).limit(1)
OwnedCourse(id, u) == FirstOf({c \in Courses : c.id = id /\ c.ownerId = u})

(***************************************************************************)
(* updateCourse                                                            *)
(***************************************************************************)
\* Object.keys(updateData).length === 0
EmptyUpdate(in) ==
    /\ in.title = None /\ in.description = None /\ in.provider = None
    /\ in.platform = None /\ in.url = None /\ in.level = None
    /\ in.tags = None /\ in.status = None

\* a full replace: the optional columns absent from the input are nulled
CourseSetReplacing(c, in, t) ==
    [c EXCEPT !.title = OrElse(in.title, @),
              !.description = in.description,
              !.provider = in.provider,
              !.platform = in.platform,
              !.url = in.url,
              !.level = OrElse(in.level, @),
              !.tags = in.tags,
              !.status = OrElse(in.status, @),
              !.updatedAt = t]

\* .set({...updateData, updatedAt: new Date()}) on one row
CourseSet(c, in, t) ==
    [c EXCEPT !.title = OrElse(in.title, @),
              !.description = SetColumn(in.description, @),
              !.provider = SetColumn(in.provider, @),
              !.platform = SetColumn(in.platform, @),
              !.url = SetColumn(in.url, @),
              !.level = OrElse(in.level, @),
              !.tags = SetColumn(in.tags, @),
              !.status = OrElse(in.status, @),
              !.updatedAt = t]

updateCourse(p, u, in) ==
    /\ At(p, "idle")
    /\ UNCHANGED <<tables, seq, now>>
    /\ LET r == Call("updateCourse", u, in) IN
       IF ~requireUser(u)
       THEN req' = [req EXCEPT ![p] = Finished(r, "UNAUTHORIZED", None)]
       ELSE \E existing \in OwnedCourse(in.id, u) :
              IF existing = None
              THEN req' = [req EXCEPT ![p] = Finished(r, "NOT_FOUND", None)]
              ELSE IF EmptyUpdate(in)
              THEN req' = [req EXCEPT ![p] = Finished(r, "OK", existing)]
              ELSE req' = [req EXCEPT ![p] = [r EXCEPT !.pc = "updateCourse.update"]]

updateCourseWrite(p) ==
    /\ At(p, "updateCourse.update")
    /\ LET r == req[p]
           hit == {c \in Courses : c.id = r.input.id /\ c.ownerId = r.user}
           new == {CourseSet(c, r.input, now) : c \in hit}
       IN /\ Courses' = (Courses \ hit) \cup new
          /\ \E course \in FirstOf(new) :
               req' = [req EXCEPT ![p] = Finished(r, "OK", course)]
    /\ UNCHANGED <<CourseItems, CourseProgress, CourseItemProgress, seq, now>>

(***************************************************************************)
(* listMyCourses                                                           *)
(***************************************************************************)
listMyCourses(p, u, in) ==
    /\ At(p, "idle")
    /\ UNCHANGED <<tables, seq, now>>
    /\ LET r == Call("listMyCourses", u, in) IN
       IF ~requireUser(u)
       THEN req' = [req EXCEPT ![p] = Finished(r, "UNAUTHORIZED", None)]
       ELSE LET courses == {c \in Courses : c.ownerId = u}
                filtered == IF in.status # None
                            THEN {c \in courses : c.status = in.status[1]}
                            ELSE courses
            IN req' = [req EXCEPT ![p] = Finished(r, "OK", filtered)]

(***************************************************************************)
(* getCourseWithItems                                                      *)
(***************************************************************************)
getCourseWithItems(p, u, in) ==
    /\ At(p, "idle")
    /\ UNCHANGED <<tables, seq, now>>
    /\ LET r == Call("getCourseWithItems", u, in) IN
       IF ~requireUser(u)
       THEN req' = [req EXCEPT ![p] = Finished(r, "UNAUTHORIZED", None)]
       ELSE \E course \in OwnedCourse(in.id, u) :
              IF course = None
              THEN req' = [req EXCEPT ![p] = Finished(r, "NOT_FOUND", None)]
              ELSE req' = [req EXCEPT ![p] = [r EXCEPT !.pc = "getCourseWithItems.items",
                                                       !.course = course]]

getCourseWithItemsItems(p) ==
    /\ At(p, "getCourseWithItems.items")
    /\ UNCHANGED <<tables, seq, now>>
    /\ LET r == req[p]
           items == {i \in CourseItems : i.courseId = r.input.id}
       IN req' = [req EXCEPT ![p] =
                    Finished(r, "OK", [course |-> r.course[1], items |-> items])]

(***************************************************************************)
(* saveCourseItem                                                          *)
(***************************************************************************)
\* the handler without its course ownership lookup
saveCourseItemUnchecked(p, u, in) ==
    /\ At(p, "idle")
    /\ UNCHANGED <<tables, seq, now>>
    /\ LET r == Call("saveCourseItem", u, in) IN
       IF ~requireUser(u)
       THEN req' = [req EXCEPT ![p] = Finished(r, "UNAUTHORIZED", None)]
       ELSE req' = [req EXCEPT ![p] = [r EXCEPT !.pc = "saveCourseItem.save"]]

saveCourseItem(p, u, in) ==
    /\ At(p, "idle")
    /\ UNCHANGED <<tables, seq, now>>
    /\ LET r == Call("saveCourseItem", u, in) IN
       IF ~requireUser(u)
       THEN req' = [req EXCEPT ![p] = Finished(r, "UNAUTHORIZED", None)]
       ELSE \E course \in OwnedCourse(in.courseId, u) :
              IF course = None
              THEN req' = [req EXCEPT ![p] = Finished(r, "NOT_FOUND", None)]
              ELSE req' = [req EXCEPT ![p] = [r EXCEPT !.pc = "saveCourseItem.save"]]

ItemBaseValues(in, t) ==
    [courseId |-> in.courseId, type |-> OrElse(in.type, "lesson"), title |-> in.title,
     description |-> in.description, position |-> OrElse(in.position, 0),
     dueDate |-> in.dueDate, estimatedMinutes |-> in.estimatedMinutes,
     isRequired |-> OrElse(in.isRequired, TRUE), createdAt |-> t]

\* if (input.id): undefined and 0 are both falsy
HasItemId(in) == in.id # None /\ in.id[1] # 0

InsertItem(v) ==
    [id |-> seq.CourseItems + 1, courseId |-> v.courseId, type |-> v.type,
     title |-> v.title, description |-> v.description, position |-> v.position,
     dueDate |-> v.dueDate, estimatedMinutes |-> v.estimatedMinutes,
     isRequired |-> v.isRequired, createdAt |-> v.createdAt]

\* .set(baseValues) on one row
ItemSet(i, v) ==
    [i EXCEPT !.courseId = v.courseId, !.type = v.type, !.title = v.title,
              !.description = SetColumn(v.description, @),
              !.position = v.position,
              !.dueDate = SetColumn(v.dueDate, @),
              !.estimatedMinutes = SetColumn(v.estimatedMinutes, @),
              !.isRequired = v.isRequired, !.createdAt = v.createdAt]

saveCourseItemSave(p) ==
    /\ At(p, "saveCourseItem.save")
    /\ LET r == req[p]
           baseValues == ItemBaseValues(r.input, now)
       IN IF HasItemId(r.input)
          THEN /\ \E existing \in FirstOf({i \in CourseItems : i.id = r.input.id[1]}) :
                    IF existing = None \/ existing[1].courseId # r.input.courseId
                    THEN req' = [req EXCEPT ![p] = Finished(r, "NOT_FOUND", None)]
                    ELSE req' = [req EXCEPT ![p] = [r EXCEPT !.pc = "saveCourseItem.update",
                                                             !.base = Some(baseValues)]]
               /\ UNCHANGED <<tables, seq, now>>
          ELSE /\ seq.CourseItems < MaxItems
               /\ LET item == InsertItem(baseValues)
                  IN /\ CourseItems' = CourseItems \cup {item}
                     /\ seq' = [seq EXCEPT !.CourseItems = @ + 1]
                     /\ req' = [req EXCEPT ![p] = Finished(r, "OK", Some(item))]
               /\ UNCHANGED <<Courses, CourseProgress, CourseItemProgress, now>>

saveCourseItemUpdate(p) ==
    /\ At(p, "saveCourseItem.update")
    /\ LET r == req[p]
           hit == {i \in CourseItems : i.id = r.input.id[1]}
           new == {ItemSet(i, r.base[1]) : i \in hit}
       IN /\ CourseItems' = (CourseItems \ hit) \cup new
          /\ \E item \in FirstOf(new) :
               req' = [req EXCEPT ![p] = Finished(r, "OK", item)]
    /\ UNCHANGED <<Courses, CourseProgress, CourseItemProgress, seq, now>>

(***************************************************************************)
(* deleteCourseItem                                                        *)
(***************************************************************************)
deleteCourseItem(p, u, in) ==
    /\ At(p, "idle")
    /\ UNCHANGED <<tables, seq, now>>
    /\ LET r == Call("deleteCourseItem", u, in) IN
       IF ~requireUser(u)
       THEN req' = [req EXCEPT ![p] = Finished(r, "UNAUTHORIZED", None)]
       ELSE \E course \in OwnedCourse(in.courseId, u) :
              IF course = None
              THEN req' = [req EXCEPT ![p] = Finished(r, "NOT_FOUND", None)]
              ELSE req' = [req EXCEPT ![p] = [r EXCEPT !.pc = "deleteCourseItem.delete"]]

\* the delete without its courseId condition
DeleteMatchById(in) == {i \in CourseItems : i.id = in.id}

\* where(and(eq(CourseItems.id, input.id), eq(CourseItems.courseId, input.courseId)))
DeleteMatch(in) == {i \in CourseItems : i.id = in.id /\ i.courseId = in.courseId}

deleteCourseItemDelete(p) ==
    /\ At(p, "deleteCourseItem.delete")
    /\ LET r == req[p]
           hit == DeleteMatch(r.input)
       IN /\ CourseItems' = CourseItems \ hit
          /\ \E deleted \in FirstOf(hit) :
               IF deleted = None
               THEN req' = [req EXCEPT ![p] = Finished(r, "NOT_FOUND", None)]
               ELSE req' = [req EXCEPT ![p] = Finished(r, "OK", deleted)]
    /\ UNCHANGED <<Courses, CourseProgress, CourseItemProgress, seq, now>>

(***************************************************************************)
(* upsertCourseProgress                                                    *)
(***************************************************************************)
upsertCourseProgress(p, u, in) ==
    /\ At(p, "idle")
    /\ UNCHANGED <<tables, seq, now>>
    /\ LET r == Call("upsertCourseProgress", u, in) IN
       IF ~requireUser(u)
       THEN req' = [req EXCEPT ![p] = Finished(r, "UNAUTHORIZED", None)]
       ELSE \E course \in OwnedCourse(in.courseId, u) :
              IF course = None
              THEN req' = [req EXCEPT ![p] = Finished(r, "NOT_FOUND", None)]
              ELSE req' = [req EXCEPT ![p] = [r EXCEPT !.pc = "upsertCourseProgress.existing"]]

\* existing?.field
FieldOf(existing, f) == IF existing = None THEN None ELSE existing[1][f]
\* existing?.field of a column that is never NULL
ValueOf(existing, f) == IF existing = None THEN None ELSE Some(existing[1][f])

\* the merge forgetting the existing row's status and counters
ProgressBaseValuesFromInput(u, in, existing, t) ==
    [courseId |-> in.courseId, userId |-> u,
     status |-> OrElse(in.status, "not_started"),
     completionPercent |-> OrElse(in.completionPercent, 0),
     totalItems |-> OrElse(in.totalItems, 0),
     completedItems |-> OrElse(in.completedItems, 0),
     lastVisitedItemId |-> Coalesce(in.lastVisitedItemId, FieldOf(existing, "lastVisitedItemId")),
     meta |-> Coalesce(in.meta, FieldOf(existing, "meta")),
     startedAt |-> Some(OrElse(FieldOf(existing, "startedAt"), t)),
     updatedAt |-> t]

ProgressBaseValues(u, in, existing, t) ==
    [courseId |-> in.courseId, userId |-> u,
     status |-> OrElse(Coalesce(in.status, ValueOf(existing, "status")), "not_started"),
     completionPercent |->
        OrElse(Coalesce(in.completionPercent, ValueOf(existing, "completionPercent")), 0),
     totalItems |-> OrElse(Coalesce(in.totalItems, ValueOf(existing, "totalItems")), 0),
     completedItems |->
        OrElse(Coalesce(in.completedItems, ValueOf(existing, "completedItems")), 0),
     lastVisitedItemId |-> Coalesce(in.lastVisitedItemId, FieldOf(existing, "lastVisitedItemId")),
     meta |-> Coalesce(in.meta, FieldOf(existing, "meta")),
     startedAt |-> Some(OrElse(FieldOf(existing, "startedAt"), t)),
     updatedAt |-> t]

upsertCourseProgressExisting(p) ==
    /\ At(p, "upsertCourseProgress.existing")
    /\ UNCHANGED <<tables, seq, now>>
    /\ LET r == req[p] IN
       \E existing \in FirstOf({g \in CourseProgress :
                                  g.courseId = r.input.courseId /\ g.userId = r.user}) :
          req' = [req EXCEPT ![p] =
                    [r EXCEPT !.pc = "upsertCourseProgress.write",
                              !.existing = existing,
                              !.base = Some(ProgressBaseValues(r.user, r.input, existing, now))]]

\* .set(baseValues) on one row
ProgressSet(g, v) ==
    [g EXCEPT !.courseId = v.courseId, !.userId = v.userId, !.status = v.status,
              !.completionPercent = v.completionPercent, !.totalItems = v.totalItems,
              !.completedItems = v.completedItems,
              !.lastVisitedItemId = SetColumn(v.lastVisitedItemId, @),
              !.meta = SetColumn(v.meta, @),
              !.startedAt = SetColumn(v.startedAt, @),
              !.updatedAt = v.updatedAt]

\* .values(baseValues): completedAt is NULL, createdAt takes its default NOW
InsertProgress(v, t) ==
    [id |-> seq.CourseProgress + 1, courseId |-> v.courseId, userId |-> v.userId,
     status |-> v.status, startedAt |-> v.startedAt, completedAt |-> None,
     completionPercent |-> v.completionPercent, totalItems |-> v.totalItems,
     completedItems |-> v.completedItems, lastVisitedItemId |-> v.lastVisitedItemId,
     meta |-> v.meta, createdAt |-> t, updatedAt |-> v.updatedAt]

\* the insert under a unique constraint on (courseId, userId): a conflicting
\* insert is rejected by the storage and the action fails
upsertCourseProgressWriteUnique(p) ==
    /\ At(p, "upsertCourseProgress.write")
    /\ LET r == req[p] IN
       IF r.existing # None
       THEN /\ LET hit == {g \in CourseProgress : g.id = r.existing[1].id}
                   new == {ProgressSet(g, r.base[1]) : g \in hit}
               IN /\ CourseProgress' = (CourseProgress \ hit) \cup new
                  /\ \E progress \in FirstOf(new) :
                       req' = [req EXCEPT ![p] = Finished(r, "OK", progress)]
            /\ UNCHANGED <<Courses, CourseItems, CourseItemProgress, seq, now>>
       ELSE IF \E g \in CourseProgress :
                   g.courseId = r.input.courseId /\ g.userId = r.user
       THEN /\ req' = [req EXCEPT ![p] = Finished(r, "INTERNAL_SERVER_ERROR", None)]
            /\ UNCHANGED <<tables, seq, now>>
       ELSE /\ seq.CourseProgress < MaxProgress
            /\ LET progress == InsertProgress(r.base[1], now)
               IN /\ CourseProgress' = CourseProgress \cup {progress}
                  /\ seq' = [seq EXCEPT !.CourseProgress = @ + 1]
                  /\ req' = [req EXCEPT ![p] = Finished(r, "OK", Some(progress))]
            /\ UNCHANGED <<Courses, CourseItems, CourseItemProgress, now>>

upsertCourseProgressWrite(p) ==
    /\ At(p, "upsertCourseProgress.write")
    /\ LET r == req[p] IN
       IF r.existing # None
       THEN /\ LET hit == {g \in CourseProgress : g.id = r.existing[1].id}
                   new == {ProgressSet(g, r.base[1]) : g \in hit}
               IN /\ CourseProgress' = (CourseProgress \ hit) \cup new
                  /\ \E progress \in FirstOf(new) :
                       req' = [req EXCEPT ![p] = Finished(r, "OK", progress)]
            /\ UNCHANGED <<Courses, CourseItems, CourseItemProgress, seq, now>>
       ELSE /\ seq.CourseProgress < MaxProgress
            /\ LET progress == InsertProgress(r.base[1], now)
               IN /\ CourseProgress' = CourseProgress \cup {progress}
                  /\ seq' = [seq EXCEPT !.CourseProgress = @ + 1]
                  /\ req' = [req EXCEPT ![p] = Finished(r, "OK", Some(progress))]
            /\ UNCHANGED <<Courses, CourseItems, CourseItemProgress, now>>

(***************************************************************************)
(* updateCourseItemProgress                                                *)
(***************************************************************************)
updateCourseItemProgress(p, u, in) ==
    /\ At(p, "idle")
    /\ UNCHANGED <<tables, seq, now>>
    /\ LET r == Call("updateCourseItemProgress", u, in) IN
       IF ~requireUser(u)
       THEN req' = [req EXCEPT ![p] = Finished(r, "UNAUTHORIZED", None)]
       ELSE \E item \in FirstOf({i \in CourseItems : i.id = in.itemId}) :
              IF item = None
              THEN req' = [req EXCEPT ![p] = Finished(r, "NOT_FOUND", None)]
              ELSE req' = [req EXCEPT ![p] = [r EXCEPT !.pc = "updateCourseItemProgress.course",
                                                       !.item = item]]

\* the parent course looked up by id alone
updateCourseItemProgressCourseAnyOwner(p) ==
    /\ At(p, "updateCourseItemProgress.course")
    /\ UNCHANGED <<tables, seq, now>>
    /\ LET r == req[p] IN
       \E course \in FirstOf({c \in Courses : c.id = r.item[1].courseId}) :
          IF course = None
          THEN req' = [req EXCEPT ![p] = Finished(r, "NOT_FOUND", None)]
          ELSE req' = [req EXCEPT ![p] = [r EXCEPT !.pc = "updateCourseItemProgress.existing"]]

updateCourseItemProgressCourse(p) ==
    /\ At(p, "updateCourseItemProgress.course")
    /\ UNCHANGED <<tables, seq, now>>
    /\ LET r == req[p] IN
       \E course \in OwnedCourse(r.item[1].courseId, r.user) :
          IF course = None
          THEN req' = [req EXCEPT ![p] = Finished(r, "NOT_FOUND", None)]
          ELSE req' = [req EXCEPT ![p] = [r EXCEPT !.pc = "updateCourseItemProgress.existing"]]

ItemProgressBaseValues(u, in, existing) ==
    [itemId |-> in.itemId, userId |-> u,
     status |-> OrElse(Coalesce(in.status, ValueOf(existing, "status")), "not_started"),
     startedAt |-> Coalesce(in.startedAt, FieldOf(existing, "startedAt")),
     completedAt |-> Coalesce(in.completedAt, FieldOf(existing, "completedAt")),
     notes |-> Coalesce(in.notes, FieldOf(existing, "notes"))]

updateCourseItemProgressExisting(p) ==
    /\ At(p, "updateCourseItemProgress.existing")
    /\ UNCHANGED <<tables, seq, now>>
    /\ LET r == req[p] IN
       \E existing \in FirstOf({g \in CourseItemProgress :
                                  g.itemId = r.input.itemId /\ g.userId = r.user}) :
          req' = [req EXCEPT ![p] =
                    [r EXCEPT !.pc = "updateCourseItemProgress.write",
                              !.existing = existing,
                              !.base = Some(ItemProgressBaseValues(r.user, r.input, existing))]]

\* .set(baseValues) on one row
ItemProgressSet(g, v) ==
    [g EXCEPT !.itemId = v.itemId, !.userId = v.userId, !.status = v.status,
              !.startedAt = SetColumn(v.startedAt, @),
              !.completedAt = SetColumn(v.completedAt, @),
              !.notes = SetColumn(v.notes, @)]

\* .values(baseValues): createdAt takes its default NOW
InsertItemProgress(v, t) ==
    [id |-> seq.CourseItemProgress + 1, itemId |-> v.itemId, userId |-> v.userId,
     status |-> v.status, startedAt |-> v.startedAt, completedAt |-> v.completedAt,
     notes |-> v.notes, createdAt |-> t]

updateCourseItemProgressWrite(p) ==
    /\ At(p, "updateCourseItemProgress.write")
    /\ LET r == req[p] IN
       IF r.existing # None
       THEN /\ LET hit == {g \in CourseItemProgress : g.id = r.existing[1].id}
                   new == {ItemProgressSet(g, r.base[1]) : g \in hit}
               IN /\ CourseItemProgress' = (CourseItemProgress \ hit) \cup new
                  /\ \E progress \in FirstOf(new) :
                       req' = [req EXCEPT ![p] = Finished(r, "OK", progress)]
            /\ UNCHANGED <<Courses, CourseItems, CourseProgress, seq, now>>
       ELSE /\ seq.CourseItemProgress < MaxItemProgress
            /\ LET progress == InsertItemProgress(r.base[1], now)
               IN /\ CourseItemProgress' = CourseItemProgress \cup {progress}
                  /\ seq' = [seq EXCEPT !.CourseItemProgress = @ + 1]
                  /\ req' = [req EXCEPT ![p] = Finished(r, "OK", Some(progress))]
            /\ UNCHANGED <<Courses, CourseItems, CourseProgress, now>>

(***************************************************************************)
(* Inputs: what the zod schemas of the actions accept, from small sets     *)
(***************************************************************************)
CourseIds == 1..MaxCourses
ItemIds == 1..MaxItems

CourseFields(title, description, provider, platform, url, level, tags, status) ==
    [title |-> title, description |-> description, provider |-> provider,
     platform |-> platform, url |-> url, level |-> level, tags |-> tags,
     status |-> status]

NoCourseFields == CourseFields(None, None, None, None, None, None, None, None)

WithId(id, f) ==
    [id |-> id, title |-> f.title, description |-> f.description,
     provider |-> f.provider, platform |-> f.platform, url |-> f.url,
     level |-> f.level, tags |-> f.tags, status |-> f.status]

createCourseInputs ==
    {CourseFields("Intro to Go", None, None, None, None, None, None, None)}

createCourseWide ==
    createCourseInputs \cup
    {CourseFields("React for Beginners", Some("d1"), Some("Udemy"), Some("web"),
                  Some("https://example.com/c"), Some("advanced"), Some("js"),
                  Some("in_progress"))}

updateCourseInputs ==
    {WithId(id, f) : id \in CourseIds,
                     f \in {NoCourseFields,
                            [NoCourseFields EXCEPT !.status = Some("in_progress")]}}

updateCourseWide ==
    {WithId(id, f) : id \in CourseIds,
                     f \in {NoCourseFields,
                            [NoCourseFields EXCEPT !.status = Some("completed")],
                            [NoCourseFields EXCEPT !.title = Some("Go, 2nd edition"),
                                                   !.level = Some("intermediate")],
                            [NoCourseFields EXCEPT !.description = Some("d2"),
                                                   !.provider = Some("Coursera"),
                                                   !.platform = Some("mobile"),
                                                   !.url = Some("https://example.com/d"),
                                                   !.tags = Some("go")]}}

listMyCoursesInputs == {[status |-> None], [status |-> Some("planned")]}

getCourseWithItemsInputs == {[id |-> id] : id \in CourseIds}

ItemFields(type, title, description, position, dueDate, estimatedMinutes, isRequired) ==
    [type |-> type, title |-> title, description |-> description, position |-> position,
     dueDate |-> dueDate, estimatedMinutes |-> estimatedMinutes, isRequired |-> isRequired]

BareItem == ItemFields(None, "Lesson 1", None, None, None, None, None)
FullItem == ItemFields(Some("quiz"), "Quiz 1", Some("d1"), Some(1), Some(1), Some(30),
                       Some(FALSE))

ItemInput(id, courseId, f) ==
    [id |-> id, courseId |-> courseId, type |-> f.type, title |-> f.title,
     description |-> f.description, position |-> f.position, dueDate |-> f.dueDate,
     estimatedMinutes |-> f.estimatedMinutes, isRequired |-> f.isRequired]

saveCourseItemInputs ==
    {ItemInput(id, courseId, BareItem) :
        id \in {None, Some(0)} \cup {Some(i) : i \in ItemIds}, courseId \in CourseIds}

saveCourseItemNew == {ItemInput(None, courseId, BareItem) : courseId \in CourseIds}

saveCourseItemWide ==
    {ItemInput(id, 1, f) :
        id \in {None} \cup {Some(i) : i \in ItemIds}, f \in {BareItem, FullItem}}

deleteCourseItemInputs == [id : ItemIds, courseId : CourseIds]

ProgressFields(status, completionPercent, totalItems, completedItems, lastVisitedItemId, meta) ==
    [status |-> status, completionPercent |-> completionPercent, totalItems |-> totalItems,
     completedItems |-> completedItems, lastVisitedItemId |-> lastVisitedItemId,
     meta |-> meta]

NoProgressFields == ProgressFields(None, None, None, None, None, None)

ProgressInput(courseId, f) ==
    [courseId |-> courseId, status |-> f.status, completionPercent |-> f.completionPercent,
     totalItems |-> f.totalItems, completedItems |-> f.completedItems,
     lastVisitedItemId |-> f.lastVisitedItemId, meta |-> f.meta]

upsertCourseProgressInputs == {ProgressInput(c, NoProgressFields) : c \in CourseIds}

upsertCourseProgressWide ==
    {ProgressInput(c, f) :
        c \in CourseIds,
        f \in {NoProgressFields,
               [NoProgressFields EXCEPT !.status = Some("in_progress"),
                                        !.completionPercent = Some(50)],
               [NoProgressFields EXCEPT !.totalItems = Some(4), !.completedItems = Some(2),
                                        !.lastVisitedItemId = Some(1), !.meta = Some("m")],
               [NoProgressFields EXCEPT !.completionPercent = Some(0),
                                        !.completedItems = Some(0)]}}

updateCourseItemProgressInputs ==
    {[itemId |-> i, status |-> None, startedAt |-> None, completedAt |-> None,
      notes |-> None] : i \in ItemIds}

\* the one request slot in use when requests run one at a time
OneAtATime == {"r1"}

(***************************************************************************)
(* Spec: the course and item actions, by any authenticated users, with     *)
(* the storage steps of concurrent requests interleaved.                   *)
(***************************************************************************)
Begin(p) ==
    \E u \in Users :
       \/ \E in \in createCourseInputs : createCourse(p, u, in)
       \/ \E in \in updateCourseInputs : updateCourse(p, u, in)
       \/ \E in \in getCourseWithItemsInputs : getCourseWithItems(p, u, in)
       \/ \E in \in saveCourseItemInputs : saveCourseItem(p, u, in)
       \/ \E in \in deleteCourseItemInputs : deleteCourseItem(p, u, in)

Continue(p) ==
    \/ updateCourseWrite(p)
    \/ getCourseWithItemsItems(p)
    \/ saveCourseItemSave(p)
    \/ saveCourseItemUpdate(p)
    \/ deleteCourseItemDelete(p)

Next == \E p \in Procs : Begin(p) \/ Continue(p) \/ Return(p)

Spec == Init /\ [][Next]_vars

(***************************************************************************)
(* SpecProgress: the progress actions, with the item actions that create   *)
(* and delete what they refer to, interleaved.                             *)
(***************************************************************************)
BeginProgress(p) ==
    \E u \in Users :
       \/ \E in \in createCourseInputs : createCourse(p, u, in)
       \/ \E in \in saveCourseItemNew : saveCourseItem(p, u, in)
       \/ \E in \in deleteCourseItemInputs : deleteCourseItem(p, u, in)
       \/ \E in \in getCourseWithItemsInputs : getCourseWithItems(p, u, in)
       \/ \E in \in upsertCourseProgressInputs : upsertCourseProgress(p, u, in)
       \/ \E in \in updateCourseItemProgressInputs : updateCourseItemProgress(p, u, in)

ContinueProgress(p) ==
    \/ saveCourseItemSave(p)
    \/ deleteCourseItemDelete(p)
    \/ getCourseWithItemsItems(p)
    \/ upsertCourseProgressExisting(p)
    \/ upsertCourseProgressWrite(p)
    \/ updateCourseItemProgressCourse(p)
    \/ updateCourseItemProgressExisting(p)
    \/ updateCourseItemProgressWrite(p)

NextProgress == \E p \in Procs : BeginProgress(p) \/ ContinueProgress(p) \/ Return(p)

SpecProgress == Init /\ [][NextProgress]_vars

(***************************************************************************)
(* SpecCourse: createCourse and updateCourse by one user over every group  *)
(* of fields, interleaved, with the clock advancing.                       *)
(***************************************************************************)
BeginCourse(p) ==
    \E u \in {"u1"} :
       \/ \E in \in createCourseWide : createCourse(p, u, in)
       \/ \E in \in updateCourseWide : updateCourse(p, u, in)

NextCourse ==
    \/ \E p \in Procs : BeginCourse(p) \/ updateCourseWrite(p) \/ Return(p)
    \/ Tick

SpecCourse == Init /\ [][NextCourse]_vars

(***************************************************************************)
(* SpecSeq: upsertCourseProgress over every group of fields, one request   *)
(* at a time, with the clock advancing.                                    *)
(***************************************************************************)
BeginSeq(p) ==
    \E u \in Users :
       \/ \E in \in createCourseInputs : createCourse(p, u, in)
       \/ \E in \in upsertCourseProgressWide : upsertCourseProgress(p, u, in)

NextSeq ==
    \/ \E p \in OneAtATime : \/ BeginSeq(p)
                        \/ upsertCourseProgressExisting(p)
                        \/ upsertCourseProgressWrite(p)
                        \/ Return(p)
    \/ Tick

SpecSeq == Init /\ [][NextSeq]_vars

(***************************************************************************)
(* SpecItems: saveCourseItem over all item fields, interleaved, with the   *)
(* clock advancing.                                                        *)
(***************************************************************************)
BeginItems(p) ==
    \E u \in Users :
       \/ \E in \in createCourseInputs : createCourse(p, u, in)
       \/ \E in \in saveCourseItemWide : saveCourseItem(p, u, in)

NextItems ==
    \/ \E p \in Procs : \/ BeginItems(p)
                        \/ saveCourseItemSave(p)
                        \/ saveCourseItemUpdate(p)
                        \/ Return(p)
    \/ Tick

SpecItems == Init /\ [][NextItems]_vars

(***************************************************************************)
(* SpecGuard: all eight actions, by authenticated callers and by callers   *)
(* with no user in the request context, one request at a time.             *)
(***************************************************************************)
BeginGuard(p) ==
    \E u \in Callers :
       \/ \E in \in createCourseInputs : createCourse(p, u, in)
       \/ \E in \in updateCourseInputs : updateCourse(p, u, in)
       \/ \E in \in listMyCoursesInputs : listMyCourses(p, u, in)
       \/ \E in \in getCourseWithItemsInputs : getCourseWithItems(p, u, in)
       \/ \E in \in saveCourseItemInputs : saveCourseItem(p, u, in)
       \/ \E in \in deleteCourseItemInputs : deleteCourseItem(p, u, in)
       \/ \E in \in upsertCourseProgressInputs : upsertCourseProgress(p, u, in)
       \/ \E in \in updateCourseItemProgressInputs : updateCourseItemProgress(p, u, in)

ContinueGuard(p) ==
    \/ updateCourseWrite(p)
    \/ getCourseWithItemsItems(p)
    \/ saveCourseItemSave(p)
    \/ saveCourseItemUpdate(p)
    \/ deleteCourseItemDelete(p)
    \/ upsertCourseProgressExisting(p)
    \/ upsertCourseProgressWrite(p)
    \/ updateCourseItemProgressCourse(p)
    \/ updateCourseItemProgressExisting(p)
    \/ updateCourseItemProgressWrite(p)

NextGuard == \E p \in OneAtATime : BeginGuard(p) \/ ContinueGuard(p) \/ Return(p)

SpecGuard == Init /\ [][NextGuard]_vars

(***************************************************************************)
(* Properties                                                              *)
(***************************************************************************)
\* request p takes a step (every step of a request moves its pc)
Stepped(p) == req'[p].pc # req[p].pc
\* request p is invoked in this step
Invoked(p) == req[p].pc = "idle" /\ req'[p].pc # "idle"
\* the user on whose behalf the step of p is taken
Actor(p) == IF req[p].pc = "idle" THEN req'[p].user ELSE req[p].user
\* the rows created, changed or deleted between two values of a table
Touched(old, new) == (old \ new) \cup (new \ old)
HasOwner(rows, id, u) == \E c \in rows : c.id = id /\ c.ownerId = u
HasOtherOwner(rows, id, u) == \E c \in rows : c.id = id /\ c.ownerId # u

\* C1: a Courses row and the CourseItems rows of that course are created,
\* changed or deleted only by steps of requests made by the course's owner,
\* and a course's ownerId never changes.
OwnerExclusiveMutation ==
    [][/\ \A p \in Procs : Stepped(p) =>
            /\ \A c \in Touched(Courses, Courses') : c.ownerId = Actor(p)
            /\ \A i \in Touched(CourseItems, CourseItems') :
                  HasOwner(Courses, i.courseId, Actor(p))
       /\ (\A p \in Procs : ~Stepped(p)) => UNCHANGED <<Courses, CourseItems>>
       /\ \A c \in Courses : HasOwner(Courses', c.id, c.ownerId)]_vars

\* an owner has updated their course and has an item in it, and another
\* user's saveCourseItem on that course was turned away
OwnerExclusiveMutationWitness ==
    \E c \in Courses, p \in Procs :
       /\ c.status = "in_progress"
       /\ \E i \in CourseItems : i.courseId = c.id
       /\ req[p].pc = "done" /\ req[p].op = "saveCourseItem"
       /\ req[p].user # c.ownerId /\ req[p].input.courseId = c.id
       /\ req[p].result.code = "NOT_FOUND"

\* the course an updateCourse, getCourseWithItems or deleteCourseItem request names
TargetCourse(r) == IF r.op = "deleteCourseItem" THEN r.input.courseId ELSE r.input.id

\* C2: updateCourse, getCourseWithItems and deleteCourseItem aimed at an
\* existing course by an authenticated user who is not its owner end with
\* NOT_FOUND in their first step and change no table.
NonOwnerNotFound ==
    [][\A p \in Procs :
         (/\ Invoked(p)
          /\ req'[p].op \in {"updateCourse", "getCourseWithItems", "deleteCourseItem"}
          /\ req'[p].user # NoUser
          /\ HasOtherOwner(Courses, TargetCourse(req'[p]), req'[p].user))
         => /\ req'[p].pc = "done"
            /\ req'[p].result.code = "NOT_FOUND"
            /\ UNCHANGED <<tables, seq>>]_vars

\* a non-owner's deleteCourseItem named an existing item of an existing
\* course and ended with NOT_FOUND
NonOwnerNotFoundWitness ==
    \E p \in Procs :
       /\ req[p].pc = "done" /\ req[p].op = "deleteCourseItem"
       /\ req[p].result.code = "NOT_FOUND"
       /\ HasOtherOwner(Courses, req[p].input.courseId, req[p].user)
       /\ \E i \in CourseItems : i.id = req[p].input.id /\ i.courseId = req[p].input.courseId

\* C6: saveCourseItem by the owner: without an id it inserts one new row
\* with a fresh id and changes no other row; with an id that names no item
\* of courseId it ends with NOT_FOUND and changes nothing; and the courseId
\* of an existing item never changes.
SaveCourseItemContract ==
    [][/\ \A p \in Procs :
            (req[p].pc = "saveCourseItem.save" /\ Stepped(p)) =>
               LET in == req[p].input IN
               IF in.id = None
               THEN \E item \in CourseItems' :
                       /\ CourseItems' = CourseItems \cup {item}
                       /\ \A i \in CourseItems : i.id # item.id
                       /\ item.courseId = in.courseId
                       /\ req'[p].result = [code |-> "OK", value |-> Some(item)]
               ELSE (~\E i \in CourseItems : i.id = in.id[1] /\ i.courseId = in.courseId)
                    => /\ req'[p].pc = "done"
                       /\ req'[p].result.code = "NOT_FOUND"
                       /\ UNCHANGED tables
       /\ \A i \in CourseItems : \A j \in CourseItems' :
             j.id = i.id => j.courseId = i.courseId]_vars

MutableCourseColumns ==
    {"title", "description", "provider", "platform", "url", "level", "tags", "status"}
OptionalCourseColumns == {"description", "provider", "platform", "url", "tags"}
\* the value a supplied input field gives a column
Supplied(in, f, optional) == IF f \in optional THEN in[f] ELSE in[f][1]

\* C3: updateCourse by the owner is a partial merge.  Its write keeps id,
\* ownerId, createdAt and every mutable column absent from the input, gives
\* the supplied columns their input value, stamps updatedAt, and changes no
\* other row; with no field supplied the first step returns the stored row
\* as it is and nothing is written.
UpdateCoursePartialMerge ==
    [][\A p \in Procs :
         /\ (req[p].pc = "updateCourse.update" /\ Stepped(p)) =>
               LET in == req[p].input IN
               \A c \in Courses :
                  IF c.id = in.id /\ c.ownerId = req[p].user
                  THEN \E d \in Courses' :
                          /\ Courses' = (Courses \ {c}) \cup {d}
                          /\ d.id = c.id /\ d.ownerId = c.ownerId
                          /\ d.createdAt = c.createdAt
                          /\ d.updatedAt = now
                          /\ \A f \in MutableCourseColumns :
                                d[f] = IF in[f] = None THEN c[f]
                                       ELSE Supplied(in, f, OptionalCourseColumns)
                          /\ req'[p].result = [code |-> "OK", value |-> Some(d)]
                  ELSE c \in Courses'
         /\ (Invoked(p) /\ req'[p].op = "updateCourse") =>
               LET in == req'[p].input IN
               /\ UNCHANGED <<tables, seq>>
               /\ \A c \in Courses :
                     (c.id = in.id /\ c.ownerId = req'[p].user) =>
                        IF \A f \in MutableCourseColumns : in[f] = None
                        THEN req'[p].pc = "done"
                             /\ req'[p].result = [code |-> "OK", value |-> Some(c)]
                        ELSE req'[p].pc = "updateCourse.update"]_vars

\* an owner's update of the status alone has returned a course that kept
\* the description it was created with and has a later updatedAt
UpdateCoursePartialMergeWitness ==
    \E p \in Procs :
       /\ req[p].pc = "done" /\ req[p].op = "updateCourse"
       /\ req[p].result.code = "OK"
       /\ req[p].input.status = Some("completed") /\ req[p].input.description = None
       /\ req[p].result.value[1].description = Some("d1")
       /\ req[p].result.value[1].status = "completed"
       /\ req[p].result.value[1].updatedAt # req[p].result.value[1].createdAt

ProgressCounters == {"status", "completionPercent", "totalItems", "completedItems"}
ProgressDefaults ==
    [status |-> "not_started", completionPercent |-> 0, totalItems |-> 0,
     completedItems |-> 0]
ProgressOptionals == {"lastVisitedItemId", "meta"}
SameKey(g, h) == g.courseId = h.courseId /\ g.userId = h.userId

\* C4: with requests running one at a time there is at most one
\* CourseProgress row per (courseId, userId).  The write of an upsert whose
\* key has a row updates that row (same id, no new row) and every field the
\* input does not supply, startedAt included, keeps its stored value; the
\* write for a new key inserts one row whose unsupplied status and counters
\* are not_started and 0.
UpsertCourseProgressSequential ==
    [][/\ \A g, h \in CourseProgress' : SameKey(g, h) => g = h
       /\ \A p \in Procs :
            (req[p].pc = "upsertCourseProgress.write" /\ Stepped(p)) =>
               LET in == req[p].input
                   olds == {g \in CourseProgress :
                              g.courseId = in.courseId /\ g.userId = req[p].user}
               IN IF olds = {}
                  THEN \E n \in CourseProgress' :
                          /\ n \notin CourseProgress
                          /\ CourseProgress' = CourseProgress \cup {n}
                          /\ n.courseId = in.courseId /\ n.userId = req[p].user
                          /\ \A f \in ProgressCounters :
                                n[f] = IF in[f] = None THEN ProgressDefaults[f] ELSE in[f][1]
                  ELSE \E o \in olds, n \in CourseProgress' :
                          /\ n.id = o.id
                          /\ CourseProgress' = (CourseProgress \ {o}) \cup {n}
                          /\ \A f \in ProgressCounters : in[f] = None => n[f] = o[f]
                          /\ \A f \in ProgressOptionals : in[f] = None => n[f] = o[f]
                          /\ n.startedAt = o.startedAt]_vars

\* two upserts for one key have left a single row: it holds the status of
\* the first call and the counters of the second, and kept its startedAt
UpsertCourseProgressSequentialWitness ==
    /\ seq.CourseProgress = 1
    /\ \E g \in CourseProgress :
          /\ g.status = "in_progress" /\ g.completionPercent = 50
          /\ g.totalItems = 4 /\ g.meta = Some("m")
          /\ g.startedAt = Some(0) /\ g.updatedAt = 1

\* C5: the insert of upsertCourseProgress is unconditional.  A request that
\* read "no existing row" inserts its row even when a row with the same
\* (courseId, userId) has been inserted since, leaving two rows with one key.
UpsertCourseProgressRace ==
    [][\A p \in Procs :
         (/\ req[p].pc = "upsertCourseProgress.write" /\ Stepped(p)
          /\ req[p].existing = None)
         => \E n \in CourseProgress' :
               /\ n \notin CourseProgress
               /\ CourseProgress' = CourseProgress \cup {n}
               /\ n.courseId = req[p].input.courseId /\ n.userId = req[p].user
               /\ \A g \in CourseProgress : g.id # n.id]_vars

\* two CourseProgress rows share one (courseId, userId)
UpsertCourseProgressRaceWitness ==
    \E g, h \in CourseProgress : g.id # h.id /\ SameKey(g, h)

\* C7: an action invoked with no user in the request context ends in its
\* first step with UNAUTHORIZED, having read and written nothing: no table
\* and no id sequence changes, and no request without a user ever reaches a
\* storage step.
FailClosedGuard ==
    [][\A p \in Procs :
         /\ (Invoked(p) /\ req'[p].user = NoUser) =>
               /\ req'[p].op \in {"createCourse", "updateCourse", "listMyCourses",
                                  "getCourseWithItems", "saveCourseItem",
                                  "deleteCourseItem", "upsertCourseProgress",
                                  "updateCourseItemProgress"}
               /\ req'[p].pc = "done"
               /\ req'[p].result = [code |-> "UNAUTHORIZED", value |-> None]
               /\ UNCHANGED <<tables, seq>>
         /\ req'[p].pc \notin {"idle", "done"} => req'[p].user # NoUser]_vars

\* with a course, an item and a progress row stored, an upsertCourseProgress
\* for that course with no user in the context was rejected
FailClosedGuardWitness ==
    \E p \in Procs, c \in Courses :
       /\ CourseItems # {} /\ CourseProgress # {}
       /\ req[p].pc = "done" /\ req[p].op = "upsertCourseProgress"
       /\ req[p].user = NoUser /\ req[p].input.courseId = c.id
       /\ req[p].result.code = "UNAUTHORIZED"

SaveCourseItemFullReplace ==
    [][\A p \in Procs :
         (req[p].pc = "saveCourseItem.update" /\ Stepped(p)) =>
            LET in == req[p].input IN
            \A i \in CourseItems :
               i.id = in.id[1] =>
                  \E j \in CourseItems' :
                     /\ CourseItems' = (CourseItems \ {i}) \cup {j}
                     /\ j.id = i.id /\ j.courseId = i.courseId
                     /\ j.type = OrElse(in.type, "lesson")
                     /\ j.title = in.title
                     /\ j.description = in.description
                     /\ j.position = OrElse(in.position, 0)
                     /\ j.dueDate = in.dueDate
                     /\ j.estimatedMinutes = in.estimatedMinutes
                     /\ j.isRequired = OrElse(in.isRequired, TRUE)]_vars

====
